---- MODULE Spec2Model ----
(***************************************************************************)
(* Model of the OpenAI client of PromptProgrammingLanguage/ai:             *)
(*   src/openai/chat.rs     OpenAIChatCommand::run, get_request,           *)
(*                          handle_stream, handle_stream_message,          *)
(*                          handle_sync                                    *)
(*   src/openai/session.rs  OpenAISessionCommand::run,                     *)
(*                          OpenAITemperature::try_from,                   *)
(*                          OpenAIModel::try_from, warn_inexact_match      *)
(*                                                                         *)
(* A string is a sequence of one-character strings.  An Option<T> is a     *)
(* sequence of length at most one: <<>> is None and <<x>> is Some(x).      *)
(***************************************************************************)
EXTENDS Integers, Sequences, FiniteSets, TLC

VARIABLES
    \* ---- handle_stream (chat.rs:89-128) ----
    pc,          \* position in handle_stream: "request", "streaming", "done"
    state,       \* StreamMessageState
    response,    \* the String buffer `response`
    display,     \* everything printed to stdout so far
    written,     \* the arguments of the calls of options.file.write, in order
    result,      \* the value handle_stream returned, "none" while running
    closed,      \* stream.close() was called
    prefix_ai,   \* options.prefix_ai
    once,        \* options.completion.append.is_some() || options.completion.once
    last,        \* the kind of the event the loop body processed last; for a
                 \* delta, which of its fields it carried
    raw,         \* the role and content texts of the deltas processed, as received
    first,       \* Option: the content of the first content-bearing delta
    firstAt,     \* where that content starts in raw, 0 before it arrived
    \* ---- handle_sync (chat.rs:51-87) ----
    sync_pc,         \* position in handle_sync: "request", "responded", "done"
    sync_prefix_ai,  \* options.prefix_ai
    print_output,    \* the print_output argument
    sync_once,       \* options.completion.append.is_some() || options.completion.once
    sync_response,   \* the HTTP response `request` received from send()
    sync_written,    \* the arguments of the calls of options.file.write, in order
    sync_printed,    \* the number of println! calls
    sync_result,     \* the value handle_sync returned, "none" while running
    \* ---- OpenAISessionCommand::try_from (session.rs:16-27) ----
    sess_pc,         \* "model", "temperature", "done"
    model_focus,     \* options.model_focus
    model,           \* options.model
    temperature,     \* options.completion.temperature, an Option
    cmd_model,       \* Option: the model field once resolved
    cmd_temperature, \* Option: the temperature field once validated
    stderr,          \* the diagnostics written by eprintln!
    sess_result,     \* the value try_from returned, "none" while running
    \* ---- OpenAIChatCommand::run (chat.rs:27-48), OpenAISessionCommand::run (session.rs:30-58) ----
    cmd,             \* the command that runs: "chat" or "session"
    env_key,         \* Option: env::var("OPEN_AI_API_KEY").ok()
    config_key,      \* Option: config.api_key_openai
    run_stream,      \* options.stream
    run_pc,          \* "request", "handler", "read", "done"
    sent,            \* the bearer tokens of the requests issued, in order
    log,             \* what happened so far, one entry per step
    run_result       \* the value run returned, "none" while running

streamVars == <<pc, state, response, display, written, result, closed,
                prefix_ai, once, last, raw, first, firstAt>>

syncVars == <<sync_pc, sync_prefix_ai, print_output, sync_once, sync_response,
              sync_written, sync_printed, sync_result>>

sessionVars == <<sess_pc, model_focus, model, temperature, cmd_model,
                 cmd_temperature, stderr, sess_result>>

runVars == <<cmd, env_key, config_key, run_stream, run_pc, sent, log, run_result>>

vars == <<streamVars, syncVars, sessionVars, runVars>>

----------------------------------------------------------------------------
\* Bounds

\* the most text (role and content characters) the deltas of one stream carry
MaxStreamLen == 4

----------------------------------------------------------------------------
\* Strings

\* the characters stream fragments are made of
Alphabet == {" ", "A", ":", "h"}

\* A character is a string. A printable ASCII character other than U+0060 and
\* each of "\t", "\n", "\f", "\r" is the string of that character; every other
\* character is written by its code point, "U+" and four to six hexadecimal
\* digits.

\* the characters U+0020 .. U+007E, in code point order
AsciiPrintable ==
    << " ", "!", "\"", "#", "$", "%", "&", "'", "(", ")", "*", "+", ",", "-",
       ".", "/", "0", "1", "2", "3", "4", "5", "6", "7", "8", "9", ":", ";",
       "<", "=", ">", "?", "@", "A", "B", "C", "D", "E", "F", "G", "H", "I",
       "J", "K", "L", "M", "N", "O", "P", "Q", "R", "S", "T", "U", "V", "W",
       "X", "Y", "Z", "[", "\\", "]", "^", "_", "U+0060", "a", "b", "c", "d", "e",
       "f", "g", "h", "i", "j", "k", "l", "m", "n", "o", "p", "q", "r", "s",
       "t", "u", "v", "w", "x", "y", "z", "{", "|", "}", "~" >>

HexDigits ==
    <<"0", "1", "2", "3", "4", "5", "6", "7", "8", "9", "A", "B", "C", "D", "E", "F">>

\* the number the first n hexadecimal digits of s denote
RECURSIVE HexNumber(_, _)
HexNumber(s, n) ==
    IF n = 0 THEN 0
    ELSE 16 * HexNumber(s, n - 1)
            + (CHOOSE i \in 1..16 : HexDigits[i] = SubSeq(s, n, n)) - 1

\* n in hexadecimal digits, at least w of them
RECURSIVE Hex(_, _)
Hex(n, w) ==
    IF n = 0 /\ w = 0 THEN ""
    ELSE Hex(n \div 16, IF w = 0 THEN 0 ELSE w - 1) \o HexDigits[(n % 16) + 1]

\* char as u32
CodePoint(c) ==
    IF Len(c) > 1 THEN HexNumber(SubSeq(c, 3, Len(c)), Len(c) - 2)
    ELSE CASE c = "\t" -> 9
           [] c = "\n" -> 10
           [] c = "\f" -> 12
           [] c = "\r" -> 13
           [] OTHER -> 31 + CHOOSE i \in 1..Len(AsciiPrintable) : AsciiPrintable[i] = c

\* char::from_u32
Char(n) ==
    CASE n \in 32..126 -> AsciiPrintable[n - 31]
      [] n = 9 -> "\t"
      [] n = 10 -> "\n"
      [] n = 12 -> "\f"
      [] n = 13 -> "\r"
      [] OTHER -> "U+" \o Hex(n, 4)

\* core::unicode::White_Space, the property of the Unicode Character Database:
\* U+0009..U+000D, U+0020, U+0085, U+00A0, U+1680, U+2000..U+200A, U+2028,
\* U+2029, U+202F, U+205F, U+3000
White_Space(n) ==
    \/ n \in 9..13
    \/ n \in 8192..8202
    \/ n \in {32, 133, 160, 5760, 8232, 8233, 8239, 8287, 12288}

\* char::is_whitespace
IsWhitespace(c) ==
    LET n == CodePoint(c)
    IN  n = 32 \/ n \in 9..13 \/ (n > 127 /\ White_Space(n))

\* all strings of at most n characters over alphabet A
StringsUpTo(A, n) == UNION {[1..k -> A] : k \in 0..n}

\* str::trim_start
RECURSIVE TrimStart(_)
TrimStart(s) ==
    IF s = <<>> THEN s
    ELSE IF IsWhitespace(Head(s)) THEN TrimStart(Tail(s))
    ELSE s

\* str::starts_with
StartsWith(s, p) == Len(p) <= Len(s) /\ SubSeq(s, 1, Len(p)) = p

\* str::replacen(p, "", 1): the first occurrence of p in s is removed
ReplaceFirst(s, p) ==
    LET hits == {i \in 1..(Len(s) - Len(p) + 1) : SubSeq(s, i, i + Len(p) - 1) = p}
    IN  IF hits = {} THEN s
        ELSE LET i == CHOOSE j \in hits : \A k \in hits : j <= k
             IN  SubSeq(s, 1, i - 1) \o SubSeq(s, i + Len(p), Len(s))

\* format!("{}:", options.prefix_ai)
PrefixColon(p) == p \o <<":">>

----------------------------------------------------------------------------
\* handle_stream_message

StreamMessageState == {"New", "HasWrittenRole", "HasWrittenContent"}

Roles == {"assistant"}

\* Display of ChatRole, as print!("{}", role) and format!("{role}") render it
RoleText(role) == <<role>>

\* Filtered with the label stripped in every state
FilteredInEveryState(st, content, p) ==
    LET filtered == TrimStart(content)
    IN  IF StartsWith(filtered, PrefixColon(p))
        THEN TrimStart(ReplaceFirst(filtered, PrefixColon(p)))
        ELSE filtered

\* the match on state of chat.rs:171-187
Filtered(st, content, p) ==
    IF st \in {"New", "HasWrittenRole"}
    THEN LET filtered == TrimStart(content)
         IN  IF StartsWith(filtered, PrefixColon(p))
             THEN TrimStart(ReplaceFirst(filtered, PrefixColon(p)))
             ELSE filtered
    ELSE content

\* StateAfterRole with the state set whether or not a role is present
StateAfterRoleAlways(st, role) == "HasWrittenRole"

\* the state after the `if let Some(ref role)` block
StateAfterRole(st, role) == IF role # <<>> THEN "HasWrittenRole" ELSE st

\* what the `if let Some(ref role)` block prints and pushes
RoleEmitted(role) == IF role # <<>> THEN RoleText(role[1]) ELSE <<>>

\* what the `if let Some(content)` block prints and pushes
ContentEmitted(st, role, content, p) ==
    IF content # <<>> THEN Filtered(StateAfterRole(st, role), content[1], p) ELSE <<>>

\* the state handle_stream_message returns
StateAfterMessage(st, role, content) ==
    IF content # <<>> THEN "HasWrittenContent" ELSE StateAfterRole(st, role)

\* Emitted with the content block placed before the role block
EmittedContentFirst(st, role, content, p) ==
    ContentEmitted(st, role, content, p) \o RoleEmitted(role)

\* the text one delta adds to the buffer and to the display
Emitted(st, role, content, p) ==
    RoleEmitted(role) \o ContentEmitted(st, role, content, p)

----------------------------------------------------------------------------
\* Events of the stream

Options(S) == {<<>>} \cup {<<x>> : x \in S}

\* the deltas that carry at most n characters of role and content text
Deltas(n) ==
    {d \in [role : Options(Roles), content : Options(StringsUpTo(Alphabet, n))] :
        Len(RoleEmitted(d.role)) + (IF d.content # <<>> THEN Len(d.content[1]) ELSE 0) <= n}

\* which of its two fields a delta carries
DeltaKind(d) ==
    CASE d.role = <<>> /\ d.content = <<>> -> "delta_empty"
      [] d.role # <<>> /\ d.content = <<>> -> "delta_role"
      [] d.role = <<>> /\ d.content # <<>> -> "delta_content"
      [] d.role # <<>> /\ d.content # <<>> -> "delta_role_content"

\* the role and the content of a delta as received
RawText(d) == RoleEmitted(d.role) \o (IF d.content # <<>> THEN d.content[1] ELSE <<>>)

----------------------------------------------------------------------------
\* handle_stream

PrefixesAI == {<<"A">>, <<"A", "h">>}

\* no run method is running
RunIdle ==
    /\ cmd = "none"
    /\ env_key = <<>>
    /\ config_key = <<>>
    /\ run_stream = FALSE
    /\ run_pc = "idle"
    /\ sent = <<>>
    /\ log = <<>>
    /\ run_result = "none"

\* handle_sync is not running
SyncIdle ==
    /\ sync_pc = "idle"
    /\ sync_prefix_ai = <<>>
    /\ print_output = FALSE
    /\ sync_once = FALSE
    /\ sync_response = [kind |-> "none", content |-> <<>>]
    /\ sync_written = <<>>
    /\ sync_printed = 0
    /\ sync_result = "none"

\* OpenAISessionCommand::try_from is not running
SessionIdle ==
    /\ sess_pc = "idle"
    /\ model_focus = "Text"
    /\ model = "Tiny"
    /\ temperature = <<>>
    /\ cmd_model = <<>>
    /\ cmd_temperature = <<>>
    /\ stderr = <<>>
    /\ sess_result = "none"

Init ==
    /\ SyncIdle /\ SessionIdle /\ RunIdle
    /\ pc = "request"
    /\ state = "New"
    /\ response = <<>>
    /\ display = <<>>
    /\ written = <<>>
    /\ result = "none"
    /\ closed = FALSE
    /\ prefix_ai \in PrefixesAI
    /\ once \in BOOLEAN
    /\ last = "none"
    /\ raw = <<>>
    /\ first = <<>>
    /\ firstAt = 0

\* get_request(client, options, config, true)? succeeds; EventSource::new
RequestOk ==
    /\ pc = "request"
    /\ pc' = "streaming"
    /\ UNCHANGED <<state, response, display, written, result, closed,
                   prefix_ai, once, last, raw, first, firstAt>>
    /\ UNCHANGED <<syncVars, sessionVars, runVars>>

\* get_request(...)? fails: handle_stream returns the error
RequestErr ==
    /\ pc = "request"
    /\ pc' = "done"
    /\ result' = "Err_Request"
    /\ UNCHANGED <<state, response, display, written, closed,
                   prefix_ai, once, last, raw, first, firstAt>>
    /\ UNCHANGED <<syncVars, sessionVars, runVars>>

\* Ok(Event::Open) => {}
StreamOpen ==
    /\ pc = "streaming"
    /\ last' = "open"
    /\ UNCHANGED <<pc, state, response, display, written, result, closed,
                   prefix_ai, once, raw, first, firstAt>>
    /\ UNCHANGED <<syncVars, sessionVars, runVars>>

\* Ok(Event::Message(message)) with a payload that decodes to a delta:
\* state = handle_stream_message(options, message.data, &mut response, state)?
StreamMessage ==
    /\ pc = "streaming"
    /\ \E d \in Deltas(MaxStreamLen - Len(raw)) :
        LET out == Emitted(state, d.role, d.content, prefix_ai) IN
        /\ last' = DeltaKind(d)
        /\ display' = display \o out
        /\ response' = response \o out
        /\ state' = StateAfterMessage(state, d.role, d.content)
        /\ raw' = raw \o RawText(d)
        /\ first' = IF first = <<>> THEN d.content ELSE first
        /\ firstAt' = IF first = <<>> /\ d.content # <<>>
                      THEN Len(raw) + Len(RoleEmitted(d.role)) + 1
                      ELSE firstAt
    /\ UNCHANGED <<pc, written, result, closed, prefix_ai, once>>
    /\ UNCHANGED <<syncVars, sessionVars, runVars>>

\* Ok(Event::Message(message)) whose payload serde_json::from_str rejects:
\* the `?` of handle_stream_message and the one of handle_stream return it
StreamMessageUndecodable ==
    /\ pc = "streaming"
    /\ last' = "undecodable"
    /\ pc' = "done"
    /\ result' = "Err_Json"
    /\ UNCHANGED <<state, response, display, written, closed,
                   prefix_ai, once, raw, first, firstAt>>
    /\ UNCHANGED <<syncVars, sessionVars, runVars>>

\* Ok(Event::Message(message)) with an empty choices array:
\* chat_response.choices.first().unwrap() panics
StreamMessageNoChoice ==
    /\ pc = "streaming"
    /\ last' = "nochoice"
    /\ pc' = "done"
    /\ result' = "panic"
    /\ UNCHANGED <<state, response, display, written, closed,
                   prefix_ai, once, raw, first, firstAt>>
    /\ UNCHANGED <<syncVars, sessionVars, runVars>>

\* StreamError with the partial buffer handed to the transcript writer
StreamErrorWritesPartial ==
    /\ pc = "streaming"
    /\ last' = "error"
    /\ closed' = TRUE
    /\ pc' = "done"
    /\ result' = "Err_EventSource"
    /\ written' = Append(written, response)
    /\ UNCHANGED <<state, response, display,
                   prefix_ai, once, raw, first, firstAt>>
    /\ UNCHANGED <<syncVars, sessionVars, runVars>>

\* Err(err) => { stream.close(); return Err(ChatError::EventSource(err)) }
StreamError ==
    /\ pc = "streaming"
    /\ last' = "error"
    /\ closed' = TRUE
    /\ pc' = "done"
    /\ result' = "Err_EventSource"
    /\ UNCHANGED <<state, response, display, written,
                   prefix_ai, once, raw, first, firstAt>>
    /\ UNCHANGED <<syncVars, sessionVars, runVars>>

\* Finish with the newline appended in state New too
FinishNewlineAlways(ev) ==
    /\ pc = "streaming"
    /\ last' = ev
    /\ display' = display \o <<"\n">>
    /\ response' = response \o <<"\n">>
    /\ written' = Append(written, response \o <<"\n">>)
    /\ pc' = "done"
    /\ \/ once /\ result' \in {"Ok_messages", "Err_ChatMessages"}
       \/ ~once /\ result' = "Ok_empty"
    /\ UNCHANGED <<state, closed, prefix_ai, once, raw, first, firstAt>>
    /\ UNCHANGED <<syncVars, sessionVars, runVars>>

\* Finish with the newline pushed to the buffer but not printed
FinishNewlineBufferOnly(ev) ==
    /\ pc = "streaming"
    /\ last' = ev
    /\ LET nl == IF state = "New" THEN <<>> ELSE <<"\n">> IN
        /\ response' = response \o nl
        /\ written' = Append(written, response \o nl)
    /\ pc' = "done"
    /\ \/ once /\ result' \in {"Ok_messages", "Err_ChatMessages"}
       \/ ~once /\ result' = "Ok_empty"
    /\ UNCHANGED <<state, display, closed, prefix_ai, once, raw, first, firstAt>>
    /\ UNCHANGED <<syncVars, sessionVars, runVars>>

\* Finish with the transcript written before the newline is appended
FinishWritesBeforeNewline(ev) ==
    /\ pc = "streaming"
    /\ last' = ev
    /\ LET nl == IF state = "New" THEN <<>> ELSE <<"\n">> IN
        /\ display' = display \o nl
        /\ response' = response \o nl
        /\ written' = Append(written, response)
    /\ pc' = "done"
    /\ \/ once /\ result' \in {"Ok_messages", "Err_ChatMessages"}
       \/ ~once /\ result' = "Ok_empty"
    /\ UNCHANGED <<state, closed, prefix_ai, once, raw, first, firstAt>>
    /\ UNCHANGED <<syncVars, sessionVars, runVars>>

\* chat.rs:111-127, everything after the loop: the newline, the transcript
\* write and the return value
Finish(ev) ==
    /\ pc = "streaming"
    /\ last' = ev
    /\ LET nl == IF state = "New" THEN <<>> ELSE <<"\n">> IN
        /\ display' = display \o nl
        /\ response' = response \o nl
        /\ written' = Append(written, response \o nl)
    /\ pc' = "done"
    /\ \/ once /\ result' \in {"Ok_messages", "Err_ChatMessages"}
       \/ ~once /\ result' = "Ok_empty"
    /\ UNCHANGED <<state, closed, prefix_ai, once, raw, first, firstAt>>
    /\ UNCHANGED <<syncVars, sessionVars, runVars>>

\* StreamDone without the guard arm: "[DONE]" reaches serde_json::from_str,
\* which rejects it
StreamDoneDecoded ==
    /\ pc = "streaming"
    /\ last' = "done"
    /\ pc' = "done"
    /\ result' = "Err_Json"
    /\ UNCHANGED <<state, response, display, written, closed,
                   prefix_ai, once, raw, first, firstAt>>
    /\ UNCHANGED <<syncVars, sessionVars, runVars>>

\* Ok(Event::Message(message)) if message.data == "[DONE]" => break 'stream
StreamDone == Finish("done")

\* stream.next() yields None: the while let loop ends
StreamEnd == Finish("end")

Next ==
    \/ RequestOk
    \/ RequestErr
    \/ StreamOpen
    \/ StreamMessage
    \/ StreamMessageUndecodable
    \/ StreamMessageNoChoice
    \/ StreamError
    \/ StreamDone
    \/ StreamEnd

Spec == Init /\ [][Next]_vars

----------------------------------------------------------------------------
\* Properties of handle_stream and handle_stream_message

\* some processed delta carried a role
SawRole == \E i \in 1..Len(raw) : raw[i] \in Roles

\* the stream ended normally: the loop was left by [DONE] or by the end of the stream
EndedNormally == last \in {"done", "end"}

\* a first fragment as the stream assembler is to emit it: leading whitespace
\* removed, then one leading "<prefix_ai>:" removed and the remainder left-trimmed
StripLabel(c, p) ==
    LET t == TrimStart(c)
    IN  IF StartsWith(t, p \o <<":">>)
        THEN TrimStart(SubSeq(t, Len(p) + 2, Len(t)))
        ELSE t

\* the buffer when only the first content fragment is changed
FirstOnlyStripped ==
    IF first = <<>> THEN raw
    ELSE SubSeq(raw, 1, firstAt - 1)
           \o StripLabel(first[1], prefix_ai)
           \o SubSeq(raw, firstAt + Len(first[1]), Len(raw))

StateRank(st) == CASE st = "New" -> 0 [] st = "HasWrittenRole" -> 1 [] st = "HasWrittenContent" -> 2

\* C1: for deltas that carry only content, from state New and an empty buffer,
\* the buffer before the end-of-stream newline is the concatenation of the
\* fragments in arrival order with only the first one changed (left-trimmed,
\* one leading "<prefix_ai>:" removed, left-trimmed again).
C1_ContentOnlyAssembly ==
    (~SawRole /\ ~EndedNormally) => response = FirstOnlyStripped

\* a content-only stream whose first fragment had whitespace and the label
\* stripped, followed by a later fragment
C1_Witness ==
    /\ ~SawRole /\ pc = "streaming"
    /\ first # <<>>
    /\ TrimStart(first[1]) # first[1]
    /\ StartsWith(TrimStart(first[1]), PrefixColon(prefix_ai))
    /\ Len(raw) > Len(first[1])
    /\ IsWhitespace(raw[Len(raw)])

\* C2: for every sequence of deltas, trimming and label stripping are applied
\* to the first content-bearing delta only; every later content fragment is
\* appended verbatim.
C2_StrippingOnlyOnce ==
    ~EndedNormally => response = FirstOnlyStripped

\* C3: the stream state never moves backwards in the order
\* New < HasWrittenRole < HasWrittenContent.
C3_StateNeverRegresses ==
    [][StateRank(state') >= StateRank(state)]_vars

\* C4: when the stream terminates normally, exactly one newline is appended to
\* the buffer and to the display if some delta carried a role or a content
\* field; otherwise the buffer is empty and nothing is appended.
C4_TrailingNewline ==
    [][(pc = "streaming" /\ last' \in {"done", "end"}) =>
         IF SawRole \/ first # <<>>
         THEN response' = response \o <<"\n">> /\ display' = display \o <<"\n">>
         ELSE response' = <<>> /\ response = <<>> /\ display' = display]_vars

\* a stream of one role-only delta that ended normally
C4_Witness ==
    /\ EndedNormally /\ SawRole /\ first = <<>>
    /\ response = raw \o <<"\n">>

\* C5: a transport error closes the stream and returns the stream error; no
\* later frame is processed, nothing is handed to the transcript writer and
\* the display keeps what was printed.
C5_TransportError ==
    [][/\ (pc = "streaming" /\ last' = "error") =>
            /\ result' = "Err_EventSource" /\ closed' /\ pc' = "done"
            /\ written' = <<>> /\ display' = display
       /\ result = "Err_EventSource" => UNCHANGED vars]_vars

\* a transport error after text was displayed
C5_Witness ==
    /\ result = "Err_EventSource" /\ closed
    /\ display # <<>> /\ written = <<>>

\* C11: a "[DONE]" frame is not given to the JSON decoder and adds nothing of
\* its own to state or buffer (the buffer only gets the end-of-stream newline
\* every normal end gets); it ends consumption, so nothing after the first
\* "[DONE]" is decoded, displayed or appended.
C11_DoneSentinel ==
    [][/\ (pc = "streaming" /\ last' = "done") =>
            /\ result' \notin {"Err_Json", "panic"}
            /\ state' = state
            /\ raw' = raw /\ first' = first
            /\ response' \in {response, response \o <<"\n">>}
            /\ pc' = "done"
       /\ last = "done" => UNCHANGED vars]_vars

\* a stream with content ended by "[DONE]"
C11_Witness ==
    /\ last = "done" /\ pc = "done"
    /\ first # <<>> /\ state = "HasWrittenContent"
    /\ result \in {"Ok_empty", "Ok_messages"}

\* C6: the transcript writer is never called while deltas are processed, and a
\* consumption that ends without error called it exactly once, with the
\* complete buffer including the end-of-stream newline.
C6_TranscriptWrittenOnce ==
    /\ pc # "done" => written = <<>>
    /\ result \in {"Ok_empty", "Ok_messages"} => written = <<response>>

\* a successful consumption of a stream that carried content
C6_Witness ==
    /\ result \in {"Ok_empty", "Ok_messages"}
    /\ first # <<>> /\ Len(response) > 1
    /\ written = <<response>>

\* C15: one delta with a role and a content, processed from state New, puts
\* the role text first and after it the content without its leading
\* whitespace and echoed "<prefix_ai>:" label, and ends in HasWrittenContent;
\* after any delta whose content is present the state is HasWrittenContent.
C15_RoleThenContent ==
    /\ last \in {"delta_content", "delta_role_content"} => state = "HasWrittenContent"
    /\ (last = "delta_role_content" /\ firstAt = 2 /\ Len(raw) = 1 + Len(first[1])) =>
            response = RoleText(raw[1]) \o StripLabel(first[1], prefix_ai)

\* the first delta carried a role and a labelled content
C15_Witness ==
    /\ last = "delta_role_content" /\ firstAt = 2 /\ Len(raw) = 1 + Len(first[1])
    /\ StartsWith(TrimStart(first[1]), PrefixColon(prefix_ai))
    /\ Len(response) = 2 /\ response[1] \in Roles
    /\ state = "HasWrittenContent"

\* C17: at every point of a stream consumption the text written to the
\* display is the contents of the response buffer.
C17_DisplayIsBuffer ==
    display = response

\* a stream with a role and content that ended normally
C17_Witness ==
    /\ EndedNormally /\ SawRole /\ first # <<>>
    /\ Len(response) >= 3
    /\ display = response

\* C18: a delta with neither role nor content leaves state and buffer as they
\* are and prints nothing, in every state; a stream of such deltas only stays
\* in state New with an empty buffer.
C18_EmptyDelta ==
    [][/\ last' = "delta_empty" =>
            /\ state' = state /\ response' = response /\ display' = display
            /\ raw' = raw /\ first' = first
       /\ (raw' = <<>> /\ first' = <<>> /\ ~EndedNormally') =>
            state' = "New" /\ response' = <<>> /\ display' = <<>>]_vars

\* an empty delta processed after content was written
C18_Witness ==
    /\ last = "delta_empty"
    /\ state = "HasWrittenContent" /\ response # <<>>

----------------------------------------------------------------------------
\* handle_sync

\* longest message content of a sync response
MaxContentLen == 3

\* the characters sync message contents are made of
SyncAlphabet == {" ", "U+00A0", "A", "a", ":"}

SyncPrefixesAI == {<<"a">>, <<"A">>}

\* The tables of core::unicode. They are generated from the Unicode Character
\* Database, and which version of it depends on the toolchain that builds the
\* program; the repository pins none. These are the tables of Unicode 17.0.0.
\* <<first, last, step, offset>>: the code points first, first + step, ..,
\* last have the lowercase mapping n + offset. U+0130, the one code point
\* whose lowercase mapping is two characters, is in ToLowerChar.
LowercaseTable ==
    { <<65, 90, 1, 32>>, <<192, 214, 1, 32>>, <<216, 222, 1, 32>>,
      <<256, 302, 2, 1>>, <<306, 310, 2, 1>>, <<313, 327, 2, 1>>,
      <<330, 374, 2, 1>>, <<376, 376, 1, -121>>, <<377, 381, 2, 1>>,
      <<385, 385, 1, 210>>, <<386, 388, 2, 1>>, <<390, 390, 1, 206>>,
      <<391, 391, 1, 1>>, <<393, 394, 1, 205>>, <<395, 395, 1, 1>>,
      <<398, 398, 1, 79>>, <<399, 399, 1, 202>>, <<400, 400, 1, 203>>,
      <<401, 401, 1, 1>>, <<403, 403, 1, 205>>, <<404, 404, 1, 207>>,
      <<406, 406, 1, 211>>, <<407, 407, 1, 209>>, <<408, 408, 1, 1>>,
      <<412, 412, 1, 211>>, <<413, 413, 1, 213>>, <<415, 415, 1, 214>>,
      <<416, 420, 2, 1>>, <<422, 422, 1, 218>>, <<423, 423, 1, 1>>,
      <<425, 425, 1, 218>>, <<428, 428, 1, 1>>, <<430, 430, 1, 218>>,
      <<431, 431, 1, 1>>, <<433, 434, 1, 217>>, <<435, 437, 2, 1>>,
      <<439, 439, 1, 219>>, <<440, 440, 1, 1>>, <<444, 444, 1, 1>>,
      <<452, 452, 1, 2>>, <<453, 453, 1, 1>>, <<455, 455, 1, 2>>,
      <<456, 456, 1, 1>>, <<458, 458, 1, 2>>, <<459, 475, 2, 1>>,
      <<478, 494, 2, 1>>, <<497, 497, 1, 2>>, <<498, 500, 2, 1>>,
      <<502, 502, 1, -97>>, <<503, 503, 1, -56>>, <<504, 542, 2, 1>>,
      <<544, 544, 1, -130>>, <<546, 562, 2, 1>>, <<570, 570, 1, 10795>>,
      <<571, 571, 1, 1>>, <<573, 573, 1, -163>>, <<574, 574, 1, 10792>>,
      <<577, 577, 1, 1>>, <<579, 579, 1, -195>>, <<580, 580, 1, 69>>,
      <<581, 581, 1, 71>>, <<582, 590, 2, 1>>, <<880, 882, 2, 1>>,
      <<886, 886, 1, 1>>, <<895, 895, 1, 116>>, <<902, 902, 1, 38>>,
      <<904, 906, 1, 37>>, <<908, 908, 1, 64>>, <<910, 911, 1, 63>>,
      <<913, 929, 1, 32>>, <<931, 939, 1, 32>>, <<975, 975, 1, 8>>,
      <<984, 1006, 2, 1>>, <<1012, 1012, 1, -60>>, <<1015, 1015, 1, 1>>,
      <<1017, 1017, 1, -7>>, <<1018, 1018, 1, 1>>, <<1021, 1023, 1, -130>>,
      <<1024, 1039, 1, 80>>, <<1040, 1071, 1, 32>>, <<1120, 1152, 2, 1>>,
      <<1162, 1214, 2, 1>>, <<1216, 1216, 1, 15>>, <<1217, 1229, 2, 1>>,
      <<1232, 1326, 2, 1>>, <<1329, 1366, 1, 48>>, <<4256, 4293, 1, 7264>>,
      <<4295, 4295, 1, 7264>>, <<4301, 4301, 1, 7264>>,
      <<5024, 5103, 1, 38864>>, <<5104, 5109, 1, 8>>, <<7305, 7305, 1, 1>>,
      <<7312, 7354, 1, -3008>>, <<7357, 7359, 1, -3008>>, <<7680, 7828, 2, 1>>,
      <<7838, 7838, 1, -7615>>, <<7840, 7934, 2, 1>>, <<7944, 7951, 1, -8>>,
      <<7960, 7965, 1, -8>>, <<7976, 7983, 1, -8>>, <<7992, 7999, 1, -8>>,
      <<8008, 8013, 1, -8>>, <<8025, 8031, 2, -8>>, <<8040, 8047, 1, -8>>,
      <<8072, 8079, 1, -8>>, <<8088, 8095, 1, -8>>, <<8104, 8111, 1, -8>>,
      <<8120, 8121, 1, -8>>, <<8122, 8123, 1, -74>>, <<8124, 8124, 1, -9>>,
      <<8136, 8139, 1, -86>>, <<8140, 8140, 1, -9>>, <<8152, 8153, 1, -8>>,
      <<8154, 8155, 1, -100>>, <<8168, 8169, 1, -8>>, <<8170, 8171, 1, -112>>,
      <<8172, 8172, 1, -7>>, <<8184, 8185, 1, -128>>, <<8186, 8187, 1, -126>>,
      <<8188, 8188, 1, -9>>, <<8486, 8486, 1, -7517>>,
      <<8490, 8490, 1, -8383>>, <<8491, 8491, 1, -8262>>,
      <<8498, 8498, 1, 28>>, <<8544, 8559, 1, 16>>, <<8579, 8579, 1, 1>>,
      <<9398, 9423, 1, 26>>, <<11264, 11311, 1, 48>>, <<11360, 11360, 1, 1>>,
      <<11362, 11362, 1, -10743>>, <<11363, 11363, 1, -3814>>,
      <<11364, 11364, 1, -10727>>, <<11367, 11371, 2, 1>>,
      <<11373, 11373, 1, -10780>>, <<11374, 11374, 1, -10749>>,
      <<11375, 11375, 1, -10783>>, <<11376, 11376, 1, -10782>>,
      <<11378, 11378, 1, 1>>, <<11381, 11381, 1, 1>>,
      <<11390, 11391, 1, -10815>>, <<11392, 11490, 2, 1>>,
      <<11499, 11501, 2, 1>>, <<11506, 11506, 1, 1>>, <<42560, 42604, 2, 1>>,
      <<42624, 42650, 2, 1>>, <<42786, 42798, 2, 1>>, <<42802, 42862, 2, 1>>,
      <<42873, 42875, 2, 1>>, <<42877, 42877, 1, -35332>>,
      <<42878, 42886, 2, 1>>, <<42891, 42891, 1, 1>>,
      <<42893, 42893, 1, -42280>>, <<42896, 42898, 2, 1>>,
      <<42902, 42920, 2, 1>>, <<42922, 42922, 1, -42308>>,
      <<42923, 42923, 1, -42319>>, <<42924, 42924, 1, -42315>>,
      <<42925, 42925, 1, -42305>>, <<42926, 42926, 1, -42308>>,
      <<42928, 42928, 1, -42258>>, <<42929, 42929, 1, -42282>>,
      <<42930, 42930, 1, -42261>>, <<42931, 42931, 1, 928>>,
      <<42932, 42946, 2, 1>>, <<42948, 42948, 1, -48>>,
      <<42949, 42949, 1, -42307>>, <<42950, 42950, 1, -35384>>,
      <<42951, 42953, 2, 1>>, <<42955, 42955, 1, -42343>>,
      <<42956, 42970, 2, 1>>, <<42972, 42972, 1, -42561>>,
      <<42997, 42997, 1, 1>>, <<65313, 65338, 1, 32>>, <<66560, 66599, 1, 40>>,
      <<66736, 66771, 1, 40>>, <<66928, 66938, 1, 39>>,
      <<66940, 66954, 1, 39>>, <<66956, 66962, 1, 39>>,
      <<66964, 66965, 1, 39>>, <<68736, 68786, 1, 64>>,
      <<68944, 68965, 1, 32>>, <<71840, 71871, 1, 32>>,
      <<93760, 93791, 1, 32>>, <<93856, 93880, 1, 27>>,
      <<125184, 125217, 1, 34>> }

\* <<first, last>>: the code points first .. last have the property Cased
\* and not the property Case_Ignorable
CasedOnlyTable ==
    { <<65, 90>>, <<97, 122>>, <<170, 170>>, <<181, 181>>, <<186, 186>>,
      <<192, 214>>, <<216, 246>>, <<248, 442>>, <<444, 447>>, <<452, 659>>,
      <<662, 687>>, <<880, 883>>, <<886, 887>>, <<891, 893>>, <<895, 895>>,
      <<902, 902>>, <<904, 906>>, <<908, 908>>, <<910, 929>>, <<931, 1013>>,
      <<1015, 1153>>, <<1162, 1327>>, <<1329, 1366>>, <<1376, 1416>>,
      <<4256, 4293>>, <<4295, 4295>>, <<4301, 4301>>, <<4304, 4346>>,
      <<4349, 4351>>, <<5024, 5109>>, <<5112, 5117>>, <<7296, 7306>>,
      <<7312, 7354>>, <<7357, 7359>>, <<7424, 7467>>, <<7531, 7543>>,
      <<7545, 7578>>, <<7680, 7957>>, <<7960, 7965>>, <<7968, 8005>>,
      <<8008, 8013>>, <<8016, 8023>>, <<8025, 8025>>, <<8027, 8027>>,
      <<8029, 8029>>, <<8031, 8061>>, <<8064, 8116>>, <<8118, 8124>>,
      <<8126, 8126>>, <<8130, 8132>>, <<8134, 8140>>, <<8144, 8147>>,
      <<8150, 8155>>, <<8160, 8172>>, <<8178, 8180>>, <<8182, 8188>>,
      <<8450, 8450>>, <<8455, 8455>>, <<8458, 8467>>, <<8469, 8469>>,
      <<8473, 8477>>, <<8484, 8484>>, <<8486, 8486>>, <<8488, 8488>>,
      <<8490, 8493>>, <<8495, 8500>>, <<8505, 8505>>, <<8508, 8511>>,
      <<8517, 8521>>, <<8526, 8526>>, <<8544, 8575>>, <<8579, 8580>>,
      <<9398, 9449>>, <<11264, 11387>>, <<11390, 11492>>, <<11499, 11502>>,
      <<11506, 11507>>, <<11520, 11557>>, <<11559, 11559>>, <<11565, 11565>>,
      <<42560, 42605>>, <<42624, 42651>>, <<42786, 42863>>, <<42865, 42887>>,
      <<42891, 42894>>, <<42896, 42972>>, <<42997, 42998>>, <<43002, 43002>>,
      <<43824, 43866>>, <<43872, 43880>>, <<43888, 43967>>, <<64256, 64262>>,
      <<64275, 64279>>, <<65313, 65338>>, <<65345, 65370>>, <<66560, 66639>>,
      <<66736, 66771>>, <<66776, 66811>>, <<66928, 66938>>, <<66940, 66954>>,
      <<66956, 66962>>, <<66964, 66965>>, <<66967, 66977>>, <<66979, 66993>>,
      <<66995, 67001>>, <<67003, 67004>>, <<68736, 68786>>, <<68800, 68850>>,
      <<68944, 68965>>, <<68976, 68997>>, <<71840, 71903>>, <<93760, 93823>>,
      <<93856, 93880>>, <<93883, 93907>>, <<119808, 119892>>,
      <<119894, 119964>>, <<119966, 119967>>, <<119970, 119970>>,
      <<119973, 119974>>, <<119977, 119980>>, <<119982, 119993>>,
      <<119995, 119995>>, <<119997, 120003>>, <<120005, 120069>>,
      <<120071, 120074>>, <<120077, 120084>>, <<120086, 120092>>,
      <<120094, 120121>>, <<120123, 120126>>, <<120128, 120132>>,
      <<120134, 120134>>, <<120138, 120144>>, <<120146, 120485>>,
      <<120488, 120512>>, <<120514, 120538>>, <<120540, 120570>>,
      <<120572, 120596>>, <<120598, 120628>>, <<120630, 120654>>,
      <<120656, 120686>>, <<120688, 120712>>, <<120714, 120744>>,
      <<120746, 120770>>, <<120772, 120779>>, <<122624, 122633>>,
      <<122635, 122654>>, <<122661, 122666>>, <<125184, 125251>>,
      <<127280, 127305>>, <<127312, 127337>>, <<127344, 127369>> }

\* <<first, last>>: the code points first .. last have the property
\* Case_Ignorable
CaseIgnorableTable ==
    { <<39, 39>>, <<46, 46>>, <<58, 58>>, <<94, 94>>, <<96, 96>>, <<168, 168>>,
      <<173, 173>>, <<175, 175>>, <<180, 180>>, <<183, 184>>, <<688, 879>>,
      <<884, 885>>, <<890, 890>>, <<900, 901>>, <<903, 903>>, <<1155, 1161>>,
      <<1369, 1369>>, <<1375, 1375>>, <<1425, 1469>>, <<1471, 1471>>,
      <<1473, 1474>>, <<1476, 1477>>, <<1479, 1479>>, <<1524, 1524>>,
      <<1536, 1541>>, <<1552, 1562>>, <<1564, 1564>>, <<1600, 1600>>,
      <<1611, 1631>>, <<1648, 1648>>, <<1750, 1757>>, <<1759, 1768>>,
      <<1770, 1773>>, <<1807, 1807>>, <<1809, 1809>>, <<1840, 1866>>,
      <<1958, 1968>>, <<2027, 2037>>, <<2042, 2042>>, <<2045, 2045>>,
      <<2070, 2093>>, <<2137, 2139>>, <<2184, 2184>>, <<2192, 2193>>,
      <<2199, 2207>>, <<2249, 2306>>, <<2362, 2362>>, <<2364, 2364>>,
      <<2369, 2376>>, <<2381, 2381>>, <<2385, 2391>>, <<2402, 2403>>,
      <<2417, 2417>>, <<2433, 2433>>, <<2492, 2492>>, <<2497, 2500>>,
      <<2509, 2509>>, <<2530, 2531>>, <<2558, 2558>>, <<2561, 2562>>,
      <<2620, 2620>>, <<2625, 2626>>, <<2631, 2632>>, <<2635, 2637>>,
      <<2641, 2641>>, <<2672, 2673>>, <<2677, 2677>>, <<2689, 2690>>,
      <<2748, 2748>>, <<2753, 2757>>, <<2759, 2760>>, <<2765, 2765>>,
      <<2786, 2787>>, <<2810, 2815>>, <<2817, 2817>>, <<2876, 2876>>,
      <<2879, 2879>>, <<2881, 2884>>, <<2893, 2893>>, <<2901, 2902>>,
      <<2914, 2915>>, <<2946, 2946>>, <<3008, 3008>>, <<3021, 3021>>,
      <<3072, 3072>>, <<3076, 3076>>, <<3132, 3132>>, <<3134, 3136>>,
      <<3142, 3144>>, <<3146, 3149>>, <<3157, 3158>>, <<3170, 3171>>,
      <<3201, 3201>>, <<3260, 3260>>, <<3263, 3263>>, <<3270, 3270>>,
      <<3276, 3277>>, <<3298, 3299>>, <<3328, 3329>>, <<3387, 3388>>,
      <<3393, 3396>>, <<3405, 3405>>, <<3426, 3427>>, <<3457, 3457>>,
      <<3530, 3530>>, <<3538, 3540>>, <<3542, 3542>>, <<3633, 3633>>,
      <<3636, 3642>>, <<3654, 3662>>, <<3761, 3761>>, <<3764, 3772>>,
      <<3782, 3782>>, <<3784, 3790>>, <<3864, 3865>>, <<3893, 3893>>,
      <<3895, 3895>>, <<3897, 3897>>, <<3953, 3966>>, <<3968, 3972>>,
      <<3974, 3975>>, <<3981, 3991>>, <<3993, 4028>>, <<4038, 4038>>,
      <<4141, 4144>>, <<4146, 4151>>, <<4153, 4154>>, <<4157, 4158>>,
      <<4184, 4185>>, <<4190, 4192>>, <<4209, 4212>>, <<4226, 4226>>,
      <<4229, 4230>>, <<4237, 4237>>, <<4253, 4253>>, <<4348, 4348>>,
      <<4957, 4959>>, <<5906, 5908>>, <<5938, 5939>>, <<5970, 5971>>,
      <<6002, 6003>>, <<6068, 6069>>, <<6071, 6077>>, <<6086, 6086>>,
      <<6089, 6099>>, <<6103, 6103>>, <<6109, 6109>>, <<6155, 6159>>,
      <<6211, 6211>>, <<6277, 6278>>, <<6313, 6313>>, <<6432, 6434>>,
      <<6439, 6440>>, <<6450, 6450>>, <<6457, 6459>>, <<6679, 6680>>,
      <<6683, 6683>>, <<6742, 6742>>, <<6744, 6750>>, <<6752, 6752>>,
      <<6754, 6754>>, <<6757, 6764>>, <<6771, 6780>>, <<6783, 6783>>,
      <<6823, 6823>>, <<6832, 6877>>, <<6880, 6891>>, <<6912, 6915>>,
      <<6964, 6964>>, <<6966, 6970>>, <<6972, 6972>>, <<6978, 6978>>,
      <<7019, 7027>>, <<7040, 7041>>, <<7074, 7077>>, <<7080, 7081>>,
      <<7083, 7085>>, <<7142, 7142>>, <<7144, 7145>>, <<7149, 7149>>,
      <<7151, 7153>>, <<7212, 7219>>, <<7222, 7223>>, <<7288, 7293>>,
      <<7376, 7378>>, <<7380, 7392>>, <<7394, 7400>>, <<7405, 7405>>,
      <<7412, 7412>>, <<7416, 7417>>, <<7468, 7530>>, <<7544, 7544>>,
      <<7579, 7679>>, <<8125, 8125>>, <<8127, 8129>>, <<8141, 8143>>,
      <<8157, 8159>>, <<8173, 8175>>, <<8189, 8190>>, <<8203, 8207>>,
      <<8216, 8217>>, <<8228, 8228>>, <<8231, 8231>>, <<8234, 8238>>,
      <<8288, 8292>>, <<8294, 8303>>, <<8305, 8305>>, <<8319, 8319>>,
      <<8336, 8348>>, <<8400, 8432>>, <<11388, 11389>>, <<11503, 11505>>,
      <<11631, 11631>>, <<11647, 11647>>, <<11744, 11775>>, <<11823, 11823>>,
      <<12293, 12293>>, <<12330, 12333>>, <<12337, 12341>>, <<12347, 12347>>,
      <<12441, 12446>>, <<12540, 12542>>, <<40981, 40981>>, <<42232, 42237>>,
      <<42508, 42508>>, <<42607, 42610>>, <<42612, 42621>>, <<42623, 42623>>,
      <<42652, 42655>>, <<42736, 42737>>, <<42752, 42785>>, <<42864, 42864>>,
      <<42888, 42890>>, <<42993, 42996>>, <<43000, 43001>>, <<43010, 43010>>,
      <<43014, 43014>>, <<43019, 43019>>, <<43045, 43046>>, <<43052, 43052>>,
      <<43204, 43205>>, <<43232, 43249>>, <<43263, 43263>>, <<43302, 43309>>,
      <<43335, 43345>>, <<43392, 43394>>, <<43443, 43443>>, <<43446, 43449>>,
      <<43452, 43453>>, <<43471, 43471>>, <<43493, 43494>>, <<43561, 43566>>,
      <<43569, 43570>>, <<43573, 43574>>, <<43587, 43587>>, <<43596, 43596>>,
      <<43632, 43632>>, <<43644, 43644>>, <<43696, 43696>>, <<43698, 43700>>,
      <<43703, 43704>>, <<43710, 43711>>, <<43713, 43713>>, <<43741, 43741>>,
      <<43756, 43757>>, <<43763, 43764>>, <<43766, 43766>>, <<43867, 43871>>,
      <<43881, 43883>>, <<44005, 44005>>, <<44008, 44008>>, <<44013, 44013>>,
      <<64286, 64286>>, <<64434, 64450>>, <<65024, 65039>>, <<65043, 65043>>,
      <<65056, 65071>>, <<65106, 65106>>, <<65109, 65109>>, <<65279, 65279>>,
      <<65287, 65287>>, <<65294, 65294>>, <<65306, 65306>>, <<65342, 65342>>,
      <<65344, 65344>>, <<65392, 65392>>, <<65438, 65439>>, <<65507, 65507>>,
      <<65529, 65531>>, <<66045, 66045>>, <<66272, 66272>>, <<66422, 66426>>,
      <<67456, 67461>>, <<67463, 67504>>, <<67506, 67514>>, <<68097, 68099>>,
      <<68101, 68102>>, <<68108, 68111>>, <<68152, 68154>>, <<68159, 68159>>,
      <<68325, 68326>>, <<68900, 68903>>, <<68942, 68942>>, <<68969, 68973>>,
      <<68975, 68975>>, <<69291, 69292>>, <<69317, 69317>>, <<69370, 69375>>,
      <<69446, 69456>>, <<69506, 69509>>, <<69633, 69633>>, <<69688, 69702>>,
      <<69744, 69744>>, <<69747, 69748>>, <<69759, 69761>>, <<69811, 69814>>,
      <<69817, 69818>>, <<69821, 69821>>, <<69826, 69826>>, <<69837, 69837>>,
      <<69888, 69890>>, <<69927, 69931>>, <<69933, 69940>>, <<70003, 70003>>,
      <<70016, 70017>>, <<70070, 70078>>, <<70089, 70092>>, <<70095, 70095>>,
      <<70191, 70193>>, <<70196, 70196>>, <<70198, 70199>>, <<70206, 70206>>,
      <<70209, 70209>>, <<70367, 70367>>, <<70371, 70378>>, <<70400, 70401>>,
      <<70459, 70460>>, <<70464, 70464>>, <<70502, 70508>>, <<70512, 70516>>,
      <<70587, 70592>>, <<70606, 70606>>, <<70608, 70608>>, <<70610, 70610>>,
      <<70625, 70626>>, <<70712, 70719>>, <<70722, 70724>>, <<70726, 70726>>,
      <<70750, 70750>>, <<70835, 70840>>, <<70842, 70842>>, <<70847, 70848>>,
      <<70850, 70851>>, <<71090, 71093>>, <<71100, 71101>>, <<71103, 71104>>,
      <<71132, 71133>>, <<71219, 71226>>, <<71229, 71229>>, <<71231, 71232>>,
      <<71339, 71339>>, <<71341, 71341>>, <<71344, 71349>>, <<71351, 71351>>,
      <<71453, 71453>>, <<71455, 71455>>, <<71458, 71461>>, <<71463, 71467>>,
      <<71727, 71735>>, <<71737, 71738>>, <<71995, 71996>>, <<71998, 71998>>,
      <<72003, 72003>>, <<72148, 72151>>, <<72154, 72155>>, <<72160, 72160>>,
      <<72193, 72202>>, <<72243, 72248>>, <<72251, 72254>>, <<72263, 72263>>,
      <<72273, 72278>>, <<72281, 72283>>, <<72330, 72342>>, <<72344, 72345>>,
      <<72544, 72544>>, <<72546, 72548>>, <<72550, 72550>>, <<72752, 72758>>,
      <<72760, 72765>>, <<72767, 72767>>, <<72850, 72871>>, <<72874, 72880>>,
      <<72882, 72883>>, <<72885, 72886>>, <<73009, 73014>>, <<73018, 73018>>,
      <<73020, 73021>>, <<73023, 73029>>, <<73031, 73031>>, <<73104, 73105>>,
      <<73109, 73109>>, <<73111, 73111>>, <<73177, 73177>>, <<73459, 73460>>,
      <<73472, 73473>>, <<73526, 73530>>, <<73536, 73536>>, <<73538, 73538>>,
      <<73562, 73562>>, <<78896, 78912>>, <<78919, 78933>>, <<90398, 90409>>,
      <<90413, 90415>>, <<92912, 92916>>, <<92976, 92982>>, <<92992, 92995>>,
      <<93504, 93506>>, <<93547, 93548>>, <<94031, 94031>>, <<94095, 94111>>,
      <<94176, 94177>>, <<94179, 94180>>, <<94194, 94195>>, <<110576, 110579>>,
      <<110581, 110587>>, <<110589, 110590>>, <<113821, 113822>>,
      <<113824, 113827>>, <<118528, 118573>>, <<118576, 118598>>,
      <<119143, 119145>>, <<119155, 119170>>, <<119173, 119179>>,
      <<119210, 119213>>, <<119362, 119364>>, <<121344, 121398>>,
      <<121403, 121452>>, <<121461, 121461>>, <<121476, 121476>>,
      <<121499, 121503>>, <<121505, 121519>>, <<122880, 122886>>,
      <<122888, 122904>>, <<122907, 122913>>, <<122915, 122916>>,
      <<122918, 122922>>, <<122928, 122989>>, <<123023, 123023>>,
      <<123184, 123197>>, <<123566, 123566>>, <<123628, 123631>>,
      <<124139, 124143>>, <<124398, 124399>>, <<124643, 124643>>,
      <<124646, 124646>>, <<124654, 124655>>, <<124661, 124661>>,
      <<124671, 124671>>, <<125136, 125142>>, <<125252, 125259>>,
      <<127995, 127999>>, <<917505, 917505>>, <<917536, 917631>>,
      <<917760, 917999>> }

\* core::unicode::Case_Ignorable
Case_Ignorable(c) ==
    LET n == CodePoint(c)
    IN  \E r \in CaseIgnorableTable : r[1] <= n /\ n <= r[2]

\* core::unicode::Cased, on a character that is not Case_Ignorable
Cased(c) ==
    LET n == CodePoint(c)
    IN  \E r \in CasedOnlyTable : r[1] <= n /\ n <= r[2]

\* char::to_lowercase: the characters c lowers to
ToLowerChar(c) ==
    LET n == CodePoint(c)
        hits == {r \in LowercaseTable :
                    r[1] <= n /\ n <= r[2] /\ (n - r[1]) % r[3] = 0}
    IN  IF n = 304 THEN <<"i", Char(775)>>
        ELSE IF hits = {} THEN <<c>>
        ELSE <<Char(n + (CHOOSE r \in hits : TRUE)[4])>>

\* case_ignorable_then_cased of str::to_lowercase: the first character of
\* iter that is not Case_Ignorable is Cased
RECURSIVE CaseIgnorableThenCased(_)
CaseIgnorableThenCased(iter) ==
    IF iter = <<>> THEN FALSE
    ELSE IF Case_Ignorable(Head(iter)) THEN CaseIgnorableThenCased(Tail(iter))
    ELSE Cased(Head(iter))

\* the characters of s, last first
Reversed(s) == [i \in 1..Len(s) |-> s[Len(s) + 1 - i]]

\* map_uppercase_sigma of str::to_lowercase: U+03A3 at position i of from
\* lowers to U+03C2 at the end of a word and to U+03C3 elsewhere
MapUppercaseSigma(from, i) ==
    LET is_word_final ==
            /\ CaseIgnorableThenCased(Reversed(SubSeq(from, 1, i - 1)))
            /\ ~CaseIgnorableThenCased(SubSeq(from, i + 1, Len(from)))
    IN  <<IF is_word_final THEN Char(962) ELSE Char(963)>>

\* str::to_lowercase of s from position i on
RECURSIVE ToLowercaseFrom(_, _)
ToLowercaseFrom(s, i) ==
    IF i > Len(s) THEN <<>>
    ELSE (IF CodePoint(s[i]) = 931 THEN MapUppercaseSigma(s, i)
          ELSE ToLowerChar(s[i]))
         \o ToLowercaseFrom(s, i + 1)

\* str::to_lowercase
ToLowercase(s) == ToLowercaseFrom(s, 1)

\* str::trim_end
RECURSIVE TrimEnd(_)
TrimEnd(s) ==
    IF s = <<>> THEN s
    ELSE IF IsWhitespace(s[Len(s)]) THEN TrimEnd(SubSeq(s, 1, Len(s) - 1))
    ELSE s

\* str::trim
Trim(s) == TrimEnd(TrimStart(s))

\* the closure of chat.rs:64-72
SyncText(content, p) ==
    LET message == Trim(content)
    IN  IF StartsWith(ToLowercase(message), p)
        THEN message
        ELSE p \o <<":", " ">> \o message

\* what send() can bring back
SyncResponses ==
    {[kind |-> k, content |-> <<>>] :
        k \in {"failure", "failure_undecodable", "undecodable", "nochoice", "nomessage"}}
    \cup {[kind |-> "message", content |-> c] : c \in StringsUpTo(SyncAlphabet, MaxContentLen)}

\* handle_stream is not running
StreamIdle ==
    /\ pc = "idle"
    /\ state = "New"
    /\ response = <<>>
    /\ display = <<>>
    /\ written = <<>>
    /\ result = "none"
    /\ closed = FALSE
    /\ prefix_ai = <<>>
    /\ once = FALSE
    /\ last = "none"
    /\ raw = <<>>
    /\ first = <<>>
    /\ firstAt = 0

SyncInit ==
    /\ StreamIdle /\ SessionIdle /\ RunIdle
    /\ sync_pc = "request"
    /\ sync_prefix_ai \in SyncPrefixesAI
    /\ print_output \in BOOLEAN
    /\ sync_once \in BOOLEAN
    /\ sync_response = [kind |-> "none", content |-> <<>>]
    /\ sync_written = <<>>
    /\ sync_printed = 0
    /\ sync_result = "none"

\* get_request(&client, &options, &config, false)? fails
SyncRequestErr ==
    /\ sync_pc = "request"
    /\ sync_pc' = "done"
    /\ sync_result' = "Err_Request"
    /\ UNCHANGED <<sync_prefix_ai, print_output, sync_once, sync_response,
                   sync_written, sync_printed>>
    /\ UNCHANGED <<streamVars, sessionVars, runVars>>

\* .send().await fails: .expect("Failed to send chat") panics
SyncSendPanic ==
    /\ sync_pc = "request"
    /\ sync_pc' = "done"
    /\ sync_result' = "panic"
    /\ UNCHANGED <<sync_prefix_ai, print_output, sync_once, sync_response,
                   sync_written, sync_printed>>
    /\ UNCHANGED <<streamVars, sessionVars, runVars>>

\* .send().await brings a response
SyncSend ==
    /\ sync_pc = "request"
    /\ sync_pc' = "responded"
    /\ sync_response' \in SyncResponses
    /\ UNCHANGED <<sync_prefix_ai, print_output, sync_once,
                   sync_written, sync_printed, sync_result>>
    /\ UNCHANGED <<streamVars, sessionVars, runVars>>

\* SyncStatusFailure with the status looked at after the transcript write
SyncStatusFailureAfterWrite ==
    /\ sync_pc = "responded"
    /\ sync_response.kind \in {"failure", "failure_undecodable"}
    /\ sync_pc' = "done"
    /\ sync_result' = IF sync_response.kind = "failure" THEN "Err_OpenAIError" ELSE "Err_Decode"
    /\ sync_written' = Append(sync_written, SyncText(<<>>, sync_prefix_ai))
    /\ UNCHANGED <<sync_prefix_ai, print_output, sync_once, sync_response, sync_printed>>
    /\ UNCHANGED <<streamVars, sessionVars, runVars>>

\* if !request.status().is_success() { return Err(OpenAIError(request.json().await?)) }
SyncStatusFailure ==
    /\ sync_pc = "responded"
    /\ sync_response.kind \in {"failure", "failure_undecodable"}
    /\ sync_pc' = "done"
    /\ sync_result' = IF sync_response.kind = "failure" THEN "Err_OpenAIError" ELSE "Err_Decode"
    /\ UNCHANGED <<sync_prefix_ai, print_output, sync_once, sync_response,
                   sync_written, sync_printed>>
    /\ UNCHANGED <<streamVars, sessionVars, runVars>>

\* request.json().await? fails on a success response
SyncDecodeErr ==
    /\ sync_pc = "responded"
    /\ sync_response.kind = "undecodable"
    /\ sync_pc' = "done"
    /\ sync_result' = "Err_Decode"
    /\ UNCHANGED <<sync_prefix_ai, print_output, sync_once, sync_response,
                   sync_written, sync_printed>>
    /\ UNCHANGED <<streamVars, sessionVars, runVars>>

\* chat_response.choices.first().unwrap() on an empty choices array
SyncNoChoice ==
    /\ sync_pc = "responded"
    /\ sync_response.kind = "nochoice"
    /\ sync_pc' = "done"
    /\ sync_result' = "panic"
    /\ UNCHANGED <<sync_prefix_ai, print_output, sync_once, sync_response,
                   sync_written, sync_printed>>
    /\ UNCHANGED <<streamVars, sessionVars, runVars>>

\* the first choice has no message: text is None, Ok(vec![])
SyncNoMessage ==
    /\ sync_pc = "responded"
    /\ sync_response.kind = "nomessage"
    /\ sync_pc' = "done"
    /\ sync_result' = "Ok_empty"
    /\ UNCHANGED <<sync_prefix_ai, print_output, sync_once, sync_response,
                   sync_written, sync_printed>>
    /\ UNCHANGED <<streamVars, sessionVars, runVars>>

\* chat.rs:62-86 with a message: the text, the write, the print, the return
SyncMessage ==
    /\ sync_pc = "responded"
    /\ sync_response.kind = "message"
    /\ sync_pc' = "done"
    /\ sync_written' = Append(sync_written, SyncText(sync_response.content, sync_prefix_ai))
    /\ \/ /\ sync_result' = "Err_Write"
          /\ UNCHANGED sync_printed
       \/ /\ sync_printed' = IF print_output THEN sync_printed + 1 ELSE sync_printed
          /\ \/ sync_once /\ sync_result' \in {"Ok_messages", "Err_ChatMessages"}
             \/ ~sync_once /\ sync_result' = "Ok_empty"
    /\ UNCHANGED <<sync_prefix_ai, print_output, sync_once, sync_response>>
    /\ UNCHANGED <<streamVars, sessionVars, runVars>>

SyncNext ==
    \/ SyncRequestErr
    \/ SyncSendPanic
    \/ SyncSend
    \/ SyncStatusFailure
    \/ SyncDecodeErr
    \/ SyncNoChoice
    \/ SyncNoMessage
    \/ SyncMessage

SpecSync == SyncInit /\ [][SyncNext]_vars

\* C12 as stated: a response whose status is not a success makes handle_sync
\* return the remote-error value with the decoded error body, with nothing
\* written to the transcript and nothing printed.
C12_FailureStatusReturnsRemoteError ==
    (sync_pc = "done" /\ sync_response.kind \in {"failure", "failure_undecodable"}) =>
        /\ sync_result = "Err_OpenAIError"
        /\ sync_written = <<>> /\ sync_printed = 0

\* C12, amended: on a non-success status handle_sync returns the remote-error
\* value when the error body decodes and the decode error when it does not;
\* either way nothing is written and nothing is printed, and a text is
\* written only for a success response that carries a message.
C12_FailureStatusNoSideEffect ==
    /\ (sync_pc = "done" /\ sync_response.kind = "failure") =>
            sync_result = "Err_OpenAIError"
    /\ (sync_pc = "done" /\ sync_response.kind = "failure_undecodable") =>
            sync_result = "Err_Decode"
    /\ sync_response.kind \in {"failure", "failure_undecodable"} =>
            sync_written = <<>> /\ sync_printed = 0
    /\ sync_written # <<>> => sync_response.kind = "message"

\* handle_sync returned the remote error of a non-success response
C12_Witness ==
    /\ sync_pc = "done" /\ sync_response.kind = "failure"
    /\ sync_result = "Err_OpenAIError"
    /\ sync_written = <<>> /\ sync_printed = 0

\* C7: the text handle_sync writes is the trimmed content unmodified when the
\* trimmed content begins with the prefix under case-insensitive comparison,
\* and "<prefix>: " followed by the trimmed content otherwise.
C7_SyncLabelCaseInsensitive ==
    sync_written # <<>> =>
        LET message == Trim(sync_response.content) IN
        sync_written =
            << IF StartsWith(ToLowercase(message), ToLowercase(sync_prefix_ai))
               THEN message
               ELSE sync_prefix_ai \o <<":", " ">> \o message >>

----------------------------------------------------------------------------
\* OpenAISessionCommand::try_from, OpenAIModel::try_from, OpenAITemperature::try_from

\* the largest temperature tried, in hundredths
MaxTemperature == 500

\* An f32 is a record: nan tells a NaN, v is the value in hundredths.
F32(x) == [nan |-> FALSE, v |-> x]

NaN == [nan |-> TRUE, v |-> 0]

Temperatures == {F32(x) : x \in (0 - MaxTemperature)..MaxTemperature} \cup {NaN}

\* options.completion.temperature.unwrap_or(0.8)
TemperatureOrDefault(t) == IF t # <<>> THEN t[1] ELSE F32(80)

\* f32::floor
Floor(n) == IF n.nan THEN n ELSE [nan |-> FALSE, v |-> (n.v \div 100) * 100]

\* `as u32` on an f32 without a fraction: NaN gives 0 and a negative value
\* saturates to 0 (the saturation at u32::MAX lies beyond every temperature
\* tried here)
AsU32(n) ==
    IF n.nan THEN 0
    ELSE LET i == n.v \div 100
         IN  IF i < 0 THEN 0 ELSE i

\* impl TryFrom<f32> for OpenAITemperature
OpenAITemperatureTryFrom(n) ==
    IF AsU32(Floor(n)) \in 0..2
    THEN [ok |-> TRUE, value |-> <<n>>]
    ELSE [ok |-> FALSE, value |-> <<>>]

ModelFocus == {"Text", "Code"}

Model == {"Tiny", "Small", "Medium", "Large", "XLarge", "XXLarge"}

OpenAIModel == {"TextDavinci", "TextCurie", "TextBabbage", "TextAda",
                "CodeDavinci", "CodeCushman"}

\* the message of warn_inexact_match!, by the slots of its concat!
WarnInexactMatch(size, focus) ==
    [requested_size |-> size, requested_focus |-> focus,
     fallback_size |-> size, fallback_focus |-> focus]

ModelOk(m) == [ok |-> TRUE, model |-> <<m>>, warnings |-> <<>>]

ModelFallback(m, size, focus) ==
    [ok |-> TRUE, model |-> <<m>>, warnings |-> <<WarnInexactMatch(size, focus)>>]

ModelErr == [ok |-> FALSE, model |-> <<>>, warnings |-> <<>>]

\* OpenAIModelTryFrom with (Text, Large) falling back to the code model
OpenAIModelTryFromCodeForText(f, m) ==
    CASE f = "Text" /\ m = "Tiny"    -> ModelOk("TextAda")
      [] f = "Code" /\ m = "Tiny"    -> ModelErr
      [] f = "Code" /\ m = "Small"   -> ModelErr
      [] f = "Text" /\ m = "Small"   -> ModelOk("TextBabbage")
      [] f = "Text" /\ m = "Medium"  -> ModelOk("TextCurie")
      [] f = "Code" /\ m = "Medium"  -> ModelOk("CodeCushman")
      [] f = "Text" /\ m = "Large"   -> ModelFallback("CodeCushman", "large", "text")
      [] f = "Code" /\ m = "Large"   -> ModelFallback("CodeCushman", "large", "code")
      [] f = "Text" /\ m = "XLarge"  -> ModelFallback("TextCurie", "x-large", "text")
      [] f = "Code" /\ m = "XLarge"  -> ModelFallback("CodeCushman", "x-large", "code")
      [] f = "Code" /\ m = "XXLarge" -> ModelOk("CodeDavinci")
      [] f = "Text" /\ m = "XXLarge" -> ModelOk("TextDavinci")

\* OpenAIModelTryFrom with (Text, XLarge) resolved to the largest text model
OpenAIModelTryFromXLargeDavinci(f, m) ==
    CASE f = "Text" /\ m = "Tiny"    -> ModelOk("TextAda")
      [] f = "Code" /\ m = "Tiny"    -> ModelErr
      [] f = "Code" /\ m = "Small"   -> ModelErr
      [] f = "Text" /\ m = "Small"   -> ModelOk("TextBabbage")
      [] f = "Text" /\ m = "Medium"  -> ModelOk("TextCurie")
      [] f = "Code" /\ m = "Medium"  -> ModelOk("CodeCushman")
      [] f = "Text" /\ m = "Large"   -> ModelFallback("TextCurie", "large", "text")
      [] f = "Code" /\ m = "Large"   -> ModelFallback("CodeCushman", "large", "code")
      [] f = "Text" /\ m = "XLarge"  -> ModelOk("TextDavinci")
      [] f = "Code" /\ m = "XLarge"  -> ModelFallback("CodeCushman", "x-large", "code")
      [] f = "Code" /\ m = "XXLarge" -> ModelOk("CodeDavinci")
      [] f = "Text" /\ m = "XXLarge" -> ModelOk("TextDavinci")

\* impl TryFrom<(ModelFocus, Model)> for OpenAIModel
OpenAIModelTryFrom(f, m) ==
    CASE f = "Text" /\ m = "Tiny"    -> ModelOk("TextAda")
      [] f = "Code" /\ m = "Tiny"    -> ModelErr
      [] f = "Code" /\ m = "Small"   -> ModelErr
      [] f = "Text" /\ m = "Small"   -> ModelOk("TextBabbage")
      [] f = "Text" /\ m = "Medium"  -> ModelOk("TextCurie")
      [] f = "Code" /\ m = "Medium"  -> ModelOk("CodeCushman")
      [] f = "Text" /\ m = "Large"   -> ModelFallback("TextCurie", "large", "text")
      [] f = "Code" /\ m = "Large"   -> ModelFallback("CodeCushman", "large", "code")
      [] f = "Text" /\ m = "XLarge"  -> ModelFallback("TextCurie", "x-large", "text")
      [] f = "Code" /\ m = "XLarge"  -> ModelFallback("CodeCushman", "x-large", "code")
      [] f = "Code" /\ m = "XXLarge" -> ModelOk("CodeDavinci")
      [] f = "Text" /\ m = "XXLarge" -> ModelOk("TextDavinci")

SessionInit ==
    /\ StreamIdle /\ SyncIdle /\ RunIdle
    /\ sess_pc = "model"
    /\ model_focus \in ModelFocus
    /\ model \in Model
    /\ temperature \in Options(Temperatures)
    /\ cmd_model = <<>>
    /\ cmd_temperature = <<>>
    /\ stderr = <<>>
    /\ sess_result = "none"

\* model: OpenAIModel::try_from((options.model_focus, options.model))?
ResolveModel ==
    /\ sess_pc = "model"
    /\ LET r == OpenAIModelTryFrom(model_focus, model) IN
        /\ stderr' = stderr \o r.warnings
        /\ cmd_model' = r.model
        /\ sess_pc' = IF r.ok THEN "temperature" ELSE "done"
        /\ sess_result' = IF r.ok THEN "none" ELSE "Err_NoMatchingModel"
    /\ UNCHANGED <<model_focus, model, temperature, cmd_temperature>>
    /\ UNCHANGED <<streamVars, syncVars, runVars>>

\* temperature: OpenAITemperature::try_from(options.completion.temperature.unwrap_or(0.8))?
ValidateTemperature ==
    /\ sess_pc = "temperature"
    /\ LET r == OpenAITemperatureTryFrom(TemperatureOrDefault(temperature)) IN
        /\ cmd_temperature' = r.value
        /\ sess_result' = IF r.ok THEN "Ok" ELSE "Err_TemperatureOutOfValidRange"
    /\ sess_pc' = "done"
    /\ UNCHANGED <<model_focus, model, temperature, cmd_model, stderr>>
    /\ UNCHANGED <<streamVars, syncVars, runVars>>

SessionNext ==
    \/ ResolveModel
    \/ ValidateTemperature

SpecSession == SessionInit /\ [][SessionNext]_vars

\* the temperature validation ran
TemperatureValidated ==
    sess_pc = "done" /\ sess_result # "Err_NoMatchingModel"

\* C8: a temperature n is accepted exactly when 0 <= n < 3 and is then
\* returned unchanged; every other input, -0.1 included, is rejected with
\* TemperatureOutOfValidRange.
C8_TemperatureRange ==
    TemperatureValidated =>
        LET n == TemperatureOrDefault(temperature) IN
        IF ~n.nan /\ 0 <= n.v /\ n.v < 300
        THEN sess_result = "Ok" /\ cmd_temperature = <<n>>
        ELSE sess_result = "Err_TemperatureOutOfValidRange" /\ cmd_temperature = <<>>

\* the focus and the tier of each backend model
FocusOf(m) == IF m \in {"CodeDavinci", "CodeCushman"} THEN "Code" ELSE "Text"

TierOf(m) ==
    CASE m = "TextAda" -> "Tiny"
      [] m = "TextBabbage" -> "Small"
      [] m \in {"TextCurie", "CodeCushman"} -> "Medium"
      [] m \in {"TextDavinci", "CodeDavinci"} -> "XXLarge"

\* the model of a focus and a tier, as a set: empty where none exists
ExactModel(f, t) == {m \in OpenAIModel : FocusOf(m) = f /\ TierOf(m) = t}

\* the resolution table: the model resolved and the number of diagnostics
ResolutionTable(f, t) ==
    IF f = "Code" /\ t \in {"Tiny", "Small"}
    THEN [model |-> {}, diagnostics |-> 0]
    ELSE IF t \in {"Large", "XLarge"}
    THEN [model |-> ExactModel(f, "Medium"), diagnostics |-> 1]
    ELSE [model |-> ExactModel(f, t), diagnostics |-> 0]

\* C9: OpenAIModel::try_from matches the resolution table on all 12 pairs:
\* (Code, Tiny) and (Code, Small) fail with NoMatchingModel, the exact tiers
\* resolve to their model with no diagnostic, Large and XLarge resolve to the
\* medium model of the focus with exactly one diagnostic.
C9_ResolutionTable ==
    sess_pc # "model" =>
        LET row == ResolutionTable(model_focus, model) IN
        /\ {cmd_model[i] : i \in 1..Len(cmd_model)} = row.model
        /\ Cardinality(row.model) <= 1
        /\ Len(stderr) = row.diagnostics
        /\ (row.model = {}) <=> (sess_result = "Err_NoMatchingModel")

\* (Text, XLarge) resolved by fallback to the medium text model
C9_Witness ==
    /\ sess_pc # "model"
    /\ model_focus = "Text" /\ model = "XLarge"
    /\ cmd_model = <<"TextCurie">>
    /\ Len(stderr) = 1

\* the names the diagnostics use for tiers and focuses
TierName(t) ==
    CASE t = "Tiny" -> "tiny" [] t = "Small" -> "small" [] t = "Medium" -> "medium"
      [] t = "Large" -> "large" [] t = "XLarge" -> "x-large" [] t = "XXLarge" -> "xx-large"

FocusName(f) == IF f = "Code" THEN "code" ELSE "text"

\* C10: the diagnostic of a fallback names the requested tier and focus and
\* the tier and focus of the model substituted; the substituted tier it names
\* is the tier of the model returned.
C10_DiagnosticNamesSubstitute ==
    \A i \in 1..Len(stderr) :
        /\ cmd_model # <<>>
        /\ stderr[i].requested_size = TierName(model)
        /\ stderr[i].requested_focus = FocusName(model_focus)
        /\ stderr[i].fallback_size = TierName(TierOf(cmd_model[1]))
        /\ stderr[i].fallback_focus = FocusName(FocusOf(cmd_model[1]))

\* the order of the tiers
TierRank(t) ==
    CASE t = "Tiny" -> 0 [] t = "Small" -> 1 [] t = "Medium" -> 2
      [] t = "Large" -> 3 [] t = "XLarge" -> 4 [] t = "XXLarge" -> 5

\* C16: a model returned by OpenAIModel::try_from belongs to the requested
\* focus and its tier is not larger than the requested tier.
C16_FallbackNotLarger ==
    cmd_model # <<>> =>
        /\ FocusOf(cmd_model[1]) = model_focus
        /\ TierRank(TierOf(cmd_model[1])) <= TierRank(model)

\* (Code, XLarge) resolved to the smaller code model
C16_Witness ==
    /\ model_focus = "Code" /\ model = "XLarge"
    /\ cmd_model = <<"CodeCushman">>
    /\ TierRank(TierOf(cmd_model[1])) < TierRank(model)

----------------------------------------------------------------------------
\* OpenAIChatCommand::run, get_request, OpenAISessionCommand::run

\* the most requests one run of the chat command issues
MaxRequests == 3

\* the values an API key takes
Tokens == {"k1", "k2"}

\* env::var("OPEN_AI_API_KEY").ok().or_else(|| config.api_key_openai.clone())
Bearer(env, config) == IF env # <<>> THEN env ELSE config

\* the errors handle_stream and handle_sync return once the request is built
HandlerErrors(stream) ==
    IF stream
    THEN {"Err_Json", "Err_EventSource", "Err_ChatMessages"}
    ELSE {"Err_OpenAIError", "Err_Decode", "Err_Write", "Err_ChatMessages"}

\* the errors OpenAISessionCommand::run returns once the request is sent
SessionRunErrors == {"Err_OpenAIError", "Err_Decode"}

RunInit ==
    /\ StreamIdle /\ SyncIdle /\ SessionIdle
    /\ cmd \in {"chat", "session"}
    /\ env_key \in Options(Tokens)
    /\ config_key \in Options(Tokens)
    /\ run_stream \in (IF cmd = "chat" THEN BOOLEAN ELSE {FALSE})
    /\ run_pc = "request"
    /\ sent = <<>>
    /\ log = <<>>
    /\ run_result = "none"

\* the step of run that is not on the program's variables of the other parts
RunOnly == UNCHANGED <<streamVars, syncVars, sessionVars>>

\* get_request: ChatMessages::try_from(options)? fails; the handler and run
\* return the error
GetRequestMessagesErr ==
    /\ cmd = "chat" /\ run_pc = "request"
    /\ log' = Append(log, "Err_Messages")
    /\ run_result' = "Err_Messages"
    /\ run_pc' = "done"
    /\ UNCHANGED <<cmd, env_key, config_key, run_stream, sent>>
    /\ RunOnly

\* GetRequestUnauthorized with the request sent without a token
GetRequestUnauthorizedSends ==
    /\ cmd = "chat" /\ run_pc = "request"
    /\ Bearer(env_key, config_key) = <<>>
    /\ log' = Append(log, "request_sent")
    /\ sent' = Append(sent, "")
    /\ run_pc' = "handler"
    /\ UNCHANGED <<cmd, env_key, config_key, run_stream, run_result>>
    /\ RunOnly

\* get_request: .ok_or_else(|| ChatError::Unauthorized)? with no key at all
GetRequestUnauthorized ==
    /\ cmd = "chat" /\ run_pc = "request"
    /\ Bearer(env_key, config_key) = <<>>
    /\ log' = Append(log, "Err_Unauthorized")
    /\ run_result' = "Err_Unauthorized"
    /\ run_pc' = "done"
    /\ UNCHANGED <<cmd, env_key, config_key, run_stream, sent>>
    /\ RunOnly

\* get_request succeeds and the handler issues the request
\* (EventSource::new(post) or .send())
GetRequestSend ==
    /\ cmd = "chat" /\ run_pc = "request"
    /\ Bearer(env_key, config_key) # <<>>
    /\ log' = Append(log, "request_sent")
    /\ sent' = Append(sent, Bearer(env_key, config_key)[1])
    /\ run_pc' = "handler"
    /\ UNCHANGED <<cmd, env_key, config_key, run_stream, run_result>>
    /\ RunOnly

\* RunHandlerErr with the error dropped and the loop going on to the context read
RunHandlerErrRetries ==
    /\ cmd = "chat" /\ run_pc = "handler"
    /\ \E e \in HandlerErrors(run_stream) :
        /\ log' = Append(log, e)
    /\ run_pc' = "read"
    /\ UNCHANGED <<cmd, env_key, config_key, run_stream, sent, run_result>>
    /\ RunOnly

\* handle_stream(...).await? or handle_sync(...).await? returns an error
RunHandlerErr ==
    /\ cmd = "chat" /\ run_pc = "handler"
    /\ \E e \in HandlerErrors(run_stream) :
        /\ log' = Append(log, e)
        /\ run_result' = e
    /\ run_pc' = "done"
    /\ UNCHANGED <<cmd, env_key, config_key, run_stream, sent>>
    /\ RunOnly

\* the handler panics (an unwrap or expect fails)
RunHandlerPanic ==
    /\ cmd = "chat" /\ run_pc = "handler"
    /\ log' = Append(log, "panic")
    /\ run_result' = "panic"
    /\ run_pc' = "done"
    /\ UNCHANGED <<cmd, env_key, config_key, run_stream, sent>>
    /\ RunOnly

\* the handler returns a non-empty list: if result.len() > 0 { return Ok(result) }
RunHandlerMessages ==
    /\ cmd = "chat" /\ run_pc = "handler"
    /\ log' = Append(log, "Ok_messages")
    /\ run_result' = "Ok_messages"
    /\ run_pc' = "done"
    /\ UNCHANGED <<cmd, env_key, config_key, run_stream, sent>>
    /\ RunOnly

\* the handler returns an empty list: run goes on to options.file.read
RunHandlerEmpty ==
    /\ cmd = "chat" /\ run_pc = "handler"
    /\ log' = Append(log, "Ok_empty")
    /\ run_pc' = "read"
    /\ UNCHANGED <<cmd, env_key, config_key, run_stream, sent, run_result>>
    /\ RunOnly

\* RunReadNone with the loop going round again
RunReadNoneLoops ==
    /\ cmd = "chat" /\ run_pc = "read"
    /\ Len(sent) < MaxRequests
    /\ log' = Append(log, "read_none")
    /\ run_pc' = "request"
    /\ UNCHANGED <<cmd, env_key, config_key, run_stream, sent, run_result>>
    /\ RunOnly

\* if let None = options.file.read(...) { return Ok(vec![]) }
RunReadNone ==
    /\ cmd = "chat" /\ run_pc = "read"
    /\ log' = Append(log, "read_none")
    /\ run_result' = "Ok_empty"
    /\ run_pc' = "done"
    /\ UNCHANGED <<cmd, env_key, config_key, run_stream, sent>>
    /\ RunOnly

\* options.file.read(...) returns a value: the loop starts over
RunReadSome ==
    /\ cmd = "chat" /\ run_pc = "read"
    /\ Len(sent) < MaxRequests
    /\ log' = Append(log, "read_some")
    /\ run_pc' = "request"
    /\ UNCHANGED <<cmd, env_key, config_key, run_stream, sent, run_result>>
    /\ RunOnly

\* OpenAISessionCommand::run: .ok_or_else(|| SessionError::Unauthorized)?
SessionRunUnauthorized ==
    /\ cmd = "session" /\ run_pc = "request"
    /\ Bearer(env_key, config_key) = <<>>
    /\ log' = Append(log, "Err_Unauthorized")
    /\ run_result' = "Err_Unauthorized"
    /\ run_pc' = "done"
    /\ UNCHANGED <<cmd, env_key, config_key, run_stream, sent>>
    /\ RunOnly

\* OpenAISessionCommand::run: the request is built and .send() is called
SessionRunSend ==
    /\ cmd = "session" /\ run_pc = "request"
    /\ Bearer(env_key, config_key) # <<>>
    /\ log' = Append(log, "request_sent")
    /\ sent' = Append(sent, Bearer(env_key, config_key)[1])
    /\ run_pc' = "handler"
    /\ UNCHANGED <<cmd, env_key, config_key, run_stream, run_result>>
    /\ RunOnly

\* OpenAISessionCommand::run after .send(): the expect, the status, the decoding
SessionRunResponse ==
    /\ cmd = "session" /\ run_pc = "handler"
    /\ \E r \in SessionRunErrors \cup {"panic", "Ok_texts"} :
        /\ log' = Append(log, r)
        /\ run_result' = r
    /\ run_pc' = "done"
    /\ UNCHANGED <<cmd, env_key, config_key, run_stream, sent>>
    /\ RunOnly

RunNext ==
    \/ GetRequestUnauthorized
    \/ GetRequestMessagesErr
    \/ GetRequestSend
    \/ RunHandlerErr
    \/ RunHandlerPanic
    \/ RunHandlerMessages
    \/ RunHandlerEmpty
    \/ RunReadNone
    \/ RunReadSome
    \/ SessionRunUnauthorized
    \/ SessionRunSend
    \/ SessionRunResponse

SpecRun == RunInit /\ [][RunNext]_vars

\* the errors a handler of the chat command can return
ChatErrors ==
    {"Err_Messages", "Err_Unauthorized"} \cup HandlerErrors(TRUE) \cup HandlerErrors(FALSE)

\* the entries of the log that start a loop iteration of run: each iteration
\* begins with the request construction of its handler
RequestStage == {"request_sent", "Err_Messages", "Err_Unauthorized"}

\* the number of entries of a sequence that lie in a set
Count(seq, S) == Cardinality({i \in 1..Len(seq) : seq[i] \in S})

\* C13: run does not retry: the first error a handler returns is returned by
\* run at once, with no further context read and no further request.
C13_NoRetry ==
    cmd = "chat" =>
        \A i \in 1..Len(log) :
            log[i] \in ChatErrors =>
                /\ i = Len(log)
                /\ run_pc = "done"
                /\ run_result = log[i]

\* a handler failed in the second iteration and run returned its error
C13_Witness ==
    /\ cmd = "chat" /\ run_pc = "done"
    /\ Len(sent) = 2
    /\ log[Len(log)] \in HandlerErrors(run_stream)
    /\ run_result = log[Len(log)]

\* C14 as stated, the failure: with neither the environment variable nor the
\* configured key, request construction fails with Unauthorized, in the chat
\* path and in OpenAISessionCommand::run.
C14_NoKeyUnauthorized ==
    (env_key = <<>> /\ config_key = <<>> /\ run_pc = "done") =>
        run_result = "Err_Unauthorized"

\* C14, amended: every request carries the key of the environment variable
\* when it is set and the configured key otherwise; with neither, no request
\* is sent and request construction fails: with Unauthorized in
\* OpenAISessionCommand::run, and in get_request with Unauthorized unless the
\* conversion of the message list, which comes first, has already failed with
\* its own error.
C14_BearerToken ==
    /\ (env_key = <<>> /\ config_key = <<>>) =>
          /\ sent = <<>>
          /\ run_pc \in {"request", "done"}
          /\ run_pc = "done" =>
                \/ run_result = "Err_Unauthorized"
                \/ cmd = "chat" /\ run_result = "Err_Messages"
    /\ \A i \in 1..Len(sent) :
          sent[i] = IF env_key # <<>> THEN env_key[1] ELSE config_key[1]

\* Unauthorized was returned with no key available and no request sent
C14_Witness ==
    /\ env_key = <<>> /\ config_key = <<>>
    /\ run_pc = "done" /\ run_result = "Err_Unauthorized"
    /\ sent = <<>>

\* C19 as stated, the count: every loop iteration of run issues exactly one request.
C19_OneRequestPerIteration ==
    cmd = "chat" => Len(sent) = Count(log, RequestStage)

\* C19, amended: a handler error, a non-empty handler result and a context read
\* of None each end run at once (None gives the empty success); every loop
\* iteration issues at most one request, exactly one when its request
\* construction succeeds; a further request follows only an empty handler
\* success and a context read that returned a value.
C19_RunLoop ==
    cmd = "chat" =>
        /\ \A i \in 1..Len(log) :
              log[i] \in ChatErrors \cup {"Ok_messages", "read_none"} =>
                  /\ i = Len(log) /\ run_pc = "done"
                  /\ run_result = IF log[i] = "read_none" THEN "Ok_empty" ELSE log[i]
        /\ Len(sent) = Count(log, {"request_sent"})
        /\ Len(sent) <= Count(log, RequestStage)
        /\ Count(log, RequestStage) - Len(sent) <= 1
        /\ \A i \in 2..Len(log) :
              log[i] \in RequestStage =>
                  /\ i >= 4
                  /\ log[i - 1] = "read_some"
                  /\ log[i - 2] = "Ok_empty"
                  /\ log[i - 3] = "request_sent"

\* run ended with the empty success after a second request and a read of None
C19_Witness ==
    /\ cmd = "chat" /\ run_pc = "done"
    /\ Len(sent) = 2
    /\ log[Len(log)] = "read_none"
    /\ run_result = "Ok_empty"

====
